---------------------------- MODULE Spec2Model ----------------------------
(***************************************************************************)
(* A model of the antd-mcp scraper (src/src/fetcher.py):                   *)
(*   - fetch_url and its on-disk cache,                                    *)
(*   - export_all_components (catalog, per-entry detail, filter, persist), *)
(*   - parse_overview with normalize_name and is_valid,                    *)
(*   - parse_component's classify, row extraction and normalize_row.       *)
(*                                                                         *)
(* Python strings that are only compared or concatenated (URLs, paths,     *)
(* messages) are TLA+ strings.  Python strings whose characters the code   *)
(* inspects (labels, header cells, hrefs) are "Text": sequences of         *)
(* characters, one element per code point.  An ASCII character is the      *)
(* one-character string; any other code point is written "U+XXXX".         *)
(***************************************************************************)
EXTENDS Integers, Sequences, FiniteSets, TLC

VARIABLES
    \* ---- fetch_url / export_all_components --------------------------------
    disk,         \* CACHE_DIR: cache file name -> cached markup (files that exist)
    exportFile,   \* export path -> persisted record, for the files that exist
    pc,           \* position of export_all_components
    force,        \* its argument force
    validate,     \* its argument validate
    filepath,     \* its argument filepath (NoPath for None)
    index,        \* local: the catalog
    pos,          \* local: number of catalog entries already processed
    all_details,  \* local: the list being built
    ret,          \* what the call returned, or the exception it raised
    requests,     \* live requests issued by the call, in order
    failures,     \* number of times the except branch of the loop ran
    \* ---- parse_overview.normalize_name ------------------------------------
    npc, raw_label, canon, canon2,
    \* ---- parse_overview ----------------------------------------------------
    opc, cards, menu, components, catalog,
    \* ---- parse_component.classify -----------------------------------------
    cpc, cheader, kind,
    \* ---- parse_component row extraction and normalize_row ------------------
    rpc, header, cells, row_dict, tkind, normalized,
    \* ---- the tool server: caches and serving loop -------------------------
    index_cache,    \* _index_cache: None, or the cached catalog
    details_cache,  \* _details_cache: url -> cached detail
    mpc,            \* position of main: serving, exited, or crashed
    line,           \* the line of standard input the loop took last
    out,            \* what that iteration wrote to standard output
    \* ---- fetch_url called on its own ---------------------------------------
    furl,           \* its argument url
    slept           \* whether the call slept

exportVars == <<disk, exportFile, pc, force, validate, filepath, index,
                pos, all_details, ret, requests, failures>>
nameVars == <<npc, raw_label, canon, canon2>>
overviewVars == <<opc, cards, menu, components, catalog>>
classifyVars == <<cpc, cheader, kind>>
rowVars == <<rpc, header, cells, row_dict, tkind, normalized>>
serverVars == <<index_cache, details_cache, mpc, line, out>>
fetchVars == <<furl, slept>>
vars == <<exportVars, nameVars, overviewVars, classifyVars, rowVars, serverVars,
          fetchVars>>

(***************************************************************************)
(* Characters and Text                                                     *)
(***************************************************************************)
\* The Text of an ASCII TLA+ string.
S(str) == [i \in 1..Len(str) |-> SubSeq(str, i, i)]

\* The Text of a word given by its code points, e.g. Z(<<"4E8B", "4EF6">>).
Z(codes) == [i \in 1..Len(codes) |-> "U+" \o codes[i]]

Upper == "ABCDEFGHIJKLMNOPQRSTUVWXYZ"
Lower == "abcdefghijklmnopqrstuvwxyz"
Digits == "0123456789"
CharsOf(str) == {SubSeq(str, i, i) : i \in 1..Len(str)}

\* The character class [A-Za-z0-9] of the two regular expressions.
AsciiAlnum == CharsOf(Upper) \cup CharsOf(Lower) \cup CharsOf(Digits)

\* Characters str.strip() removes and str.split() splits on: ASCII
\* whitespace, NO-BREAK SPACE and IDEOGRAPHIC SPACE.
Whitespace == {" ", "\t", "\n", "\r", "\f", "U+00A0", "U+3000"}

\* s.startswith(p)
StartsWith(s, p) == Len(p) <= Len(s) /\ SubSeq(s, 1, Len(p)) = p

\* p in s
Contains(s, p) ==
    \E i \in 1..(Len(s) - Len(p) + 1) : SubSeq(s, i, i + Len(p) - 1) = p

\* c.lower() for one character: ASCII letters fold, the other characters of
\* the model (digits, punctuation, CJK) have no case.
UpperChars == CharsOf(Upper)
LowerOf ==
    [c \in UpperChars |->
        LET i == CHOOSE j \in 1..Len(Upper) : SubSeq(Upper, j, j) = c
        IN  SubSeq(Lower, i, i)]
LowerChar(c) == IF c \in UpperChars THEN LowerOf[c] ELSE c

\* s.lower()
lower(s) == [i \in 1..Len(s) |-> LowerChar(s[i])]

\* s.strip()
RECURSIVE lstrip(_)
lstrip(s) == IF s # <<>> /\ Head(s) \in Whitespace THEN lstrip(Tail(s)) ELSE s

RECURSIVE rstrip(_)
rstrip(s) ==
    IF s # <<>> /\ s[Len(s)] \in Whitespace
    THEN rstrip(SubSeq(s, 1, Len(s) - 1))
    ELSE s

strip(s) == rstrip(lstrip(s))

\* The longest prefix of s whose characters are all in the class cls.
RECURSIVE LeadingRun(_, _)
LeadingRun(s, cls) ==
    IF s # <<>> /\ Head(s) \in cls
    THEN <<Head(s)>> \o LeadingRun(Tail(s), cls)
    ELSE <<>>

\* s.split(sep)[0] for a one-character separator set: the text before the
\* first separator.
FirstField(s, seps) == LeadingRun(s, {s[i] : i \in 1..Len(s)} \ seps)

\* s.split()[0] for s with a non-whitespace character: the first
\* whitespace-delimited token.
FirstToken(s) == FirstField(lstrip(s), Whitespace)

(***************************************************************************)
(* Bounds of the model                                                     *)
(***************************************************************************)
\* Longest catalog export_all_components walks.
MaxCatalog == 3
\* Longest raw label given to normalize_name.
MaxLabel == 3
\* Most raw extractions (cards plus menu links) on an overview page.
MaxRaw == 3
\* Most columns of a table header given to classify.
MaxHeader == 3
\* Most columns of the header of a table whose row is normalized; a row
\* has up to one cell more.
MaxCols == 2

(***************************************************************************)
(* fetch_url and the disk cache                                            *)
(***************************************************************************)
BASE_URL == "https://4x.ant.design"
OVERVIEW_PATH == "/components/overview-cn/"
OverviewUrl == BASE_URL \o OVERVIEW_PATH

\* re.sub(r'[^a-zA-Z0-9]+', '_', url): every maximal run of characters
\* outside [a-zA-Z0-9] becomes one underscore.
RECURSIVE Sanitize(_, _)
Sanitize(url, i) ==
    IF i > Len(url) THEN ""
    ELSE LET c == SubSeq(url, i, i) IN
         IF c \in AsciiAlnum THEN c \o Sanitize(url, i + 1)
         ELSE IF i > 1 /\ SubSeq(url, i - 1, i - 1) \notin AsciiAlnum
              THEN Sanitize(url, i + 1)
              ELSE "_" \o Sanitize(url, i + 1)

\* The catalog entries the exporter reads: 'name' and 'url' of a summary.
ComponentNames == {"Button", "Input", "Table"}
ComponentPath(n) ==
    CASE n = "Button" -> "/components/button-cn/"
      [] n = "Input" -> "/components/input-cn/"
      [] n = "Table" -> "/components/table-cn/"
Summary(n) == [name |-> n, url |-> BASE_URL \o ComponentPath(n)]

\* URLs of the site, and two other URLs that differ only in characters
\* outside [a-zA-Z0-9].
SiteUrls == {OverviewUrl} \cup {Summary(n).url : n \in ComponentNames}
OtherUrls == {"http://a/b?c", "http://a/b/c"}

\* The cache file names of these URLs, computed once.
CacheFiles == [u \in SiteUrls \cup OtherUrls |-> Sanitize(u, 1) \o ".html"]

\* The cache file of a URL, relative to CACHE_DIR.
cache_file(url) ==
    IF url \in DOMAIN CacheFiles THEN CacheFiles[url] ELSE Sanitize(url, 1) \o ".html"

\* What the overview page can parse to: the catalogs of at most MaxCatalog
\* summaries with pairwise different names (parse_overview keeps one
\* summary per name).  The overview markup is represented by its catalog.
Catalogs ==
    LET Sums == {Summary(n) : n \in ComponentNames}
    IN  {c \in UNION {[1..n -> Sums] : n \in 0..MaxCatalog} :
            \A i, j \in 1..Len(c) : i # j => c[i].name # c[j].name}

\* The markup a component page can have.
PageBodies == {"page-a", "page-b"}

\* What the site can serve at a URL.
Remote(url) == IF url = OverviewUrl THEN Catalogs ELSE PageBodies

\* Ways a live request fails: a status other than 200 (FetchError), or an
\* exception of requests.get itself.
FetchErrors(url) ==
    {"Failed " \o url \o " status=404", "ConnectionError"}

\* A fetch_url that returns the cache file whenever it exists, forced or not.
fetch_url_IgnoreForce(d, url, f) ==
    LET file == cache_file(url) IN
    IF file \in DOMAIN d
    THEN {[raised |-> FALSE, text |-> d[file], disk |-> d, live |-> <<>>,
           slept |-> FALSE]}
    ELSE {[raised |-> TRUE, error |-> e, disk |-> d,
           live |-> <<[url |-> url, ok |-> FALSE]>>, slept |-> FALSE] :
              e \in FetchErrors(url)}
         \cup
         {[raised |-> FALSE, text |-> t,
           disk |-> [k \in DOMAIN d \cup {file} |-> IF k = file THEN t ELSE d[k]],
           live |-> <<[url |-> url, ok |-> TRUE]>>, slept |-> TRUE] :
              t \in Remote(url)}

\* fetch_url(url, force=f) on cache d: the set of its possible outcomes.
\* An outcome that returns has 'text'; one that raises has 'error'.
\* 'live' lists the live requests made, 'slept' tells whether it slept.
fetch_url(d, url, f) ==
    LET file == cache_file(url) IN
    IF file \in DOMAIN d /\ ~f
    THEN {[raised |-> FALSE, text |-> d[file], disk |-> d, live |-> <<>>,
           slept |-> FALSE]}
    ELSE {[raised |-> TRUE, error |-> e, disk |-> d,
           live |-> <<[url |-> url, ok |-> FALSE]>>, slept |-> FALSE] :
              e \in FetchErrors(url)}
         \cup
         {[raised |-> FALSE, text |-> t,
           disk |-> [k \in DOMAIN d \cup {file} |-> IF k = file THEN t ELSE d[k]],
           live |-> <<[url |-> url, ok |-> TRUE]>>, slept |-> TRUE] :
              t \in Remote(url)}

(***************************************************************************)
(* export_all_components                                                   *)
(***************************************************************************)
\* A build_component_index that swallows the fetch error and goes on with an
\* empty catalog.
build_component_index_Swallow(d, f) ==
    {IF o.raised
     THEN [raised |-> FALSE, index |-> <<>>, disk |-> o.disk, live |-> o.live]
     ELSE [raised |-> FALSE, index |-> o.text, disk |-> o.disk, live |-> o.live] :
        o \in fetch_url(d, OverviewUrl, f)}

\* build_component_index(force=f): fetch the overview page and parse it.
\* A raised fetch error propagates unchanged.
build_component_index(d, f) ==
    {IF o.raised THEN o
     ELSE [raised |-> FALSE, index |-> o.text, disk |-> o.disk, live |-> o.live] :
        o \in fetch_url(d, OverviewUrl, f)}

\* get_component_detail(url, force=f): fetch the page, parse it and add
\* 'source_url'.  The parsed page is represented by its markup.
get_component_detail(d, url, f) ==
    {IF o.raised THEN o
     ELSE [raised |-> FALSE, disk |-> o.disk, live |-> o.live,
           detail |-> [html |-> o.text, source_url |-> url]] :
        o \in fetch_url(d, url, f)}

\* detail['name'] = comp['name']
TagDetail(detail, comp) ==
    [k \in DOMAIN detail \cup {"name"} |->
        IF k = "name" THEN comp.name ELSE detail[k]]

\* {'name': comp.get('name'), 'error': str(e)}
ErrorEntry(comp, message) == [name |-> comp.name, error |-> message]

\* 'error' in d
HasError(d) == "error" \in DOMAIN d

\* not comp.get('url')
MissingUrl(comp) == "url" \notin DOMAIN comp \/ comp.url = ""

\* An exporter that forgets the filter.
FilterDetails_Keep(details, v) == details

\* if validate: all_details = [d for d in all_details if 'error' not in d]
FilterDetails(details, v) ==
    IF v THEN SelectSeq(details, LAMBDA x : ~HasError(x)) ELSE details

\* sum(1 for d in all_details if 'error' in d)
CountErrors(details) == Len(SelectSeq(details, HasError))

NoPath == "None"
DefaultExportPath == "exports/antd_components_all.json"
ExportPaths == {DefaultExportPath, "out.json"}

\* filepath or str(EXPORT_DIR / 'antd_components_all.json')
export_path(p) == IF p = NoPath \/ p = "" THEN DefaultExportPath ELSE p

\* A record left at an export path by an earlier run.
EarlierRecord == [generated_at |-> "earlier", count |-> 0, components |-> <<>>]

\* json.dump({...}, f): the record persisted by this run.
ExportRecord(details) ==
    [generated_at |-> "now", count |-> Len(details), components |-> details]

\* The call starts: the catalog is obtained.
ExportStart(f, v, p) ==
    /\ pc = "idle"
    /\ \E o \in build_component_index(disk, f) :
          /\ ~o.raised
          /\ index' = o.index
          /\ disk' = o.disk
          /\ requests' = requests \o o.live
    /\ force' = f
    /\ validate' = v
    /\ filepath' = p
    /\ pc' = "loop"
    /\ UNCHANGED <<exportFile, pos, all_details, ret, failures>>

\* The call starts and build_component_index raises: the exception leaves
\* export_all_components.
ExportCatalogFails(f, v, p) ==
    /\ pc = "idle"
    /\ \E o \in build_component_index(disk, f) :
          /\ o.raised
          /\ ret' = [raised |-> o.error]
          /\ disk' = o.disk
          /\ requests' = requests \o o.live
    /\ force' = f
    /\ validate' = v
    /\ filepath' = p
    /\ pc' = "raised"
    /\ UNCHANGED <<exportFile, index, pos, all_details, failures>>

\* One iteration of the loop whose try block completes.
ExportDetail ==
    /\ pc = "loop"
    /\ pos < Len(index)
    /\ LET comp == index[pos + 1] IN
          /\ ~MissingUrl(comp)
          /\ \E o \in get_component_detail(disk, comp.url, force) :
                /\ ~o.raised
                /\ all_details' = Append(all_details, TagDetail(o.detail, comp))
                /\ disk' = o.disk
                /\ requests' = requests \o o.live
    /\ pos' = pos + 1
    /\ UNCHANGED <<exportFile, pc, force, validate, filepath, index, ret, failures>>

\* An except branch that records nothing.
OnFailure_Drop(details, comp, message) == details

\* The except branch: what the failed iteration appends.
OnFailure(details, comp, message) == Append(details, ErrorEntry(comp, message))

\* One iteration of the loop whose try block raises.
ExportDetailFails ==
    /\ pc = "loop"
    /\ pos < Len(index)
    /\ LET comp == index[pos + 1] IN
          IF MissingUrl(comp)
          THEN /\ all_details' = OnFailure(all_details, comp, "Missing URL")
               /\ UNCHANGED <<disk, requests>>
          ELSE \E o \in get_component_detail(disk, comp.url, force) :
                /\ o.raised
                /\ all_details' = OnFailure(all_details, comp, o.error)
                /\ disk' = o.disk
                /\ requests' = requests \o o.live
    /\ pos' = pos + 1
    /\ failures' = failures + 1
    /\ UNCHANGED <<exportFile, pc, force, validate, filepath, index, ret>>

\* After the loop: filter, persist, return.
ExportFinish ==
    /\ pc = "loop"
    /\ pos = Len(index)
    /\ LET kept == FilterDetails(all_details, validate)
           path == export_path(filepath)
       IN  /\ all_details' = kept
           /\ exportFile' = [k \in DOMAIN exportFile \cup {path} |->
                                IF k = path THEN ExportRecord(kept) ELSE exportFile[k]]
           /\ ret' = [filepath |-> path, count |-> Len(kept),
                      errors |-> CountErrors(kept)]
    /\ pc' = "returned"
    /\ UNCHANGED <<disk, force, validate, filepath, index, pos, requests, failures>>

\* Cache files left by earlier runs.
EarlierBody == "page-a"
EarlierCaches ==
    LET PageFiles == {cache_file(Summary(n).url) : n \in ComponentNames}
        Pages == UNION {[fs -> {EarlierBody}] : fs \in SUBSET PageFiles}
    IN  Pages \cup
        {[k \in DOMAIN d \cup {cache_file(OverviewUrl)} |->
             IF k = cache_file(OverviewUrl) THEN c ELSE d[k]] :
           d \in Pages, c \in Catalogs}

ExportInit ==
    /\ disk \in EarlierCaches
    /\ exportFile \in UNION {[ps -> {EarlierRecord}] : ps \in SUBSET ExportPaths}
    /\ pc = "idle"
    /\ force = FALSE
    /\ validate = TRUE
    /\ filepath = NoPath
    /\ index = <<>>
    /\ pos = 0
    /\ all_details = <<>>
    /\ ret = [none |-> TRUE]
    /\ requests = <<>>
    /\ failures = 0

ExportOff ==
    /\ disk = <<>>
    /\ exportFile = <<>>
    /\ pc = "off"
    /\ force = FALSE
    /\ validate = TRUE
    /\ filepath = NoPath
    /\ index = <<>>
    /\ pos = 0
    /\ all_details = <<>>
    /\ ret = [none |-> TRUE]
    /\ requests = <<>>
    /\ failures = 0

NameOff == npc = "off" /\ raw_label = <<>> /\ canon = <<>> /\ canon2 = <<>>
OverviewOff ==
    opc = "off" /\ cards = <<>> /\ menu = <<>> /\ components = <<>> /\ catalog = <<>>
ClassifyOff == cpc = "off" /\ cheader = <<>> /\ kind = "none"
RowOff ==
    /\ rpc = "off" /\ header = <<>> /\ cells = <<>> /\ row_dict = <<>>
    /\ tkind = "none" /\ normalized = <<>>

ServerOff ==
    /\ index_cache = [none |-> TRUE] /\ details_cache = <<>> /\ mpc = "off"
    /\ line = [none |-> TRUE] /\ out = <<>>
FetchOff == furl = "" /\ slept = FALSE

Init ==
    /\ ExportInit /\ NameOff /\ OverviewOff /\ ClassifyOff /\ RowOff
    /\ ServerOff /\ FetchOff

Next ==
    \/ \E f \in BOOLEAN, v \in BOOLEAN, p \in {NoPath, "out.json"} :
          ExportStart(f, v, p) /\ UNCHANGED <<nameVars, overviewVars, classifyVars, rowVars, serverVars, fetchVars>>
    \/ \E f \in BOOLEAN, v \in BOOLEAN, p \in {NoPath, "out.json"} :
          ExportCatalogFails(f, v, p) /\ UNCHANGED <<nameVars, overviewVars, classifyVars, rowVars, serverVars, fetchVars>>
    \/ ExportDetail /\ UNCHANGED <<nameVars, overviewVars, classifyVars, rowVars, serverVars, fetchVars>>
    \/ ExportDetailFails /\ UNCHANGED <<nameVars, overviewVars, classifyVars, rowVars, serverVars, fetchVars>>
    \/ ExportFinish /\ UNCHANGED <<nameVars, overviewVars, classifyVars, rowVars, serverVars, fetchVars>>

Spec == Init /\ [][Next]_vars

(***************************************************************************)
(* Properties of export_all_components (specification Spec)                *)
(***************************************************************************)
\* The record this call persisted.
Persisted == exportFile[ret.filepath]

\* C1: the returned 'errors' equals the number of catalog entries whose
\* detail extraction failed during the run, with validate true or false.
\* The code counts after filtering, so with validate=true it returns 0.
C1_ErrorsCountFailures ==
    pc = "returned" => ret.errors = failures

\* C2: with validate=true the persisted 'components' holds no entry with an
\* 'error' field, and the persisted and the returned 'count' both equal its
\* length, the catalog size minus the number of failures.
C2_ValidatedExportHasNoErrors ==
    (pc = "returned" /\ validate) =>
        /\ \A k \in 1..Len(Persisted.components) :
              "error" \notin DOMAIN Persisted.components[k]
        /\ Persisted.count = Len(Persisted.components)
        /\ ret.count = Len(Persisted.components)
        /\ Len(Persisted.components) = Len(index) - failures

\* C2 witness: a validated export of three components, one of which failed.
C2_Witness ==
    /\ pc = "returned" /\ validate
    /\ Len(index) = 3 /\ failures = 1 /\ ret.count = 2

\* C3: a failure while processing a catalog entry never aborts the run:
\* every entry processed so far left one element in the list, the loop goes
\* on to the end of the catalog, and with validate=false the persisted
\* 'components' has one entry per summary, in catalog order, {name, error}
\* for a failed entry and the detail tagged with the summary's name for a
\* successful one, so count is the catalog size.
C3_PartialFailureKeepsGoing ==
    /\ pc = "loop" => pos <= Len(index) /\ Len(all_details) = pos
    /\ failures > 0 => pc \in {"loop", "returned"}
    /\ pc = "returned" => pos = Len(index)
    /\ (pc = "returned" /\ ~validate) =>
          /\ Len(Persisted.components) = Len(index)
          /\ Persisted.count = Len(index)
          /\ ret.count = Len(index)
          /\ Cardinality({k \in 1..Len(index) :
                "error" \in DOMAIN Persisted.components[k]}) = failures
          /\ \A k \in 1..Len(index) :
                LET e == Persisted.components[k] IN
                /\ e.name = index[k].name
                /\ \/ DOMAIN e = {"name", "error"}
                   \/ /\ DOMAIN e = {"name", "html", "source_url"}
                      /\ e.source_url = index[k].url

\* C3 witness: the first of three entries failed, the later two were still
\* fetched, and the unvalidated export holds all three.
C3_Witness ==
    /\ pc = "returned" /\ ~validate /\ Len(index) = 3
    /\ "error" \in DOMAIN Persisted.components[1]
    /\ "error" \notin DOMAIN Persisted.components[2]
    /\ "error" \notin DOMAIN Persisted.components[3]

\* The live request for the overview page failed.
CatalogFetchFailed ==
    requests # <<>> /\ requests[1].url = OverviewUrl /\ ~requests[1].ok

\* C4: if the overview fetch raises, export_all_components raises at once:
\* no component page is requested and no export record is written or
\* overwritten (the files at the export paths are those of earlier runs).
C4_CatalogFailureIsFatal ==
    CatalogFetchFailed =>
        /\ pc = "raised"
        /\ "raised" \in DOMAIN ret
        /\ Len(requests) = 1
        /\ all_details = <<>>
        /\ \A p \in DOMAIN exportFile : exportFile[p] = EarlierRecord

\* C4 witness: a forced export failed on the overview although a cached
\* overview and an earlier export record exist.
C4_Witness ==
    /\ pc = "raised" /\ force
    /\ cache_file(OverviewUrl) \in DOMAIN disk
    /\ DefaultExportPath \in DOMAIN exportFile

(***************************************************************************)
(* parse_overview.normalize_name                                           *)
(***************************************************************************)
\* normalize_name with the pattern [A-Za-z0-9]* in place of [A-Za-z0-9]+:
\* the match always succeeds.
normalize_name_Star(raw) == LeadingRun(strip(raw), AsciiAlnum)

\* normalize_name(raw): the leading run of ASCII letters and digits of the
\* stripped label, else its first whitespace-delimited token, else the
\* (empty) stripped label.
normalize_name(raw) ==
    LET stripped == strip(raw)
        m == LeadingRun(stripped, AsciiAlnum)      \* re.match(r'([A-Za-z0-9]+)', raw)
    IN  IF m # <<>> THEN m
        ELSE IF stripped # <<>> THEN FirstToken(stripped)
        ELSE stripped

\* Characters of the raw labels: ASCII letters and a digit, whitespace
\* (space, newline, ideographic space), a CJK character (U+6309) and
\* punctuation.
LabelChars == {"B", "t", "7", " ", "\n", "U+3000", "U+6309", "-"}

\* All texts over chars of length at most n.
RECURSIVE TextsUpTo(_, _)
TextsUpTo(chars, n) ==
    IF n = 0 THEN {<<>>}
    ELSE LET shorter == TextsUpTo(chars, n - 1)
         IN  shorter \cup {Append(s, c) : s \in shorter, c \in chars}

NameInit ==
    /\ npc = "raw"
    /\ raw_label \in TextsUpTo(LabelChars, MaxLabel)
    /\ canon = <<>>
    /\ canon2 = <<>>

\* name = normalize_name(label)
Canonicalize ==
    /\ npc = "raw"
    /\ canon' = normalize_name(raw_label)
    /\ npc' = "once"
    /\ UNCHANGED <<raw_label, canon2>>

\* normalize_name applied to its own result.
Recanonicalize ==
    /\ npc = "once"
    /\ canon2' = normalize_name(canon)
    /\ npc' = "twice"
    /\ UNCHANGED <<raw_label, canon>>

InitName ==
    /\ ExportOff /\ NameInit /\ OverviewOff /\ ClassifyOff /\ RowOff
    /\ ServerOff /\ FetchOff

NextName ==
    \/ Canonicalize /\ UNCHANGED <<exportVars, overviewVars, classifyVars, rowVars, serverVars, fetchVars>>
    \/ Recanonicalize /\ UNCHANGED <<exportVars, overviewVars, classifyVars, rowVars, serverVars, fetchVars>>

SpecName == InitName /\ [][NextName]_vars

\* C7 as stated: normalize_name(L) is non-empty whenever L is non-empty
\* (labels made only of whitespace included), and normalize_name is
\* idempotent.
C7_NonEmptyAndIdempotent ==
    /\ (npc \in {"once", "twice"} /\ raw_label # <<>>) => canon # <<>>
    /\ npc = "twice" => canon2 = canon

\* The label has a character that is not whitespace.
HasVisibleChar(s) == \E i \in 1..Len(s) : s[i] \notin Whitespace

\* C7 amended: normalize_name(L) is non-empty whenever L has a character
\* that is not whitespace (labels starting with non-ASCII text or with
\* punctuation included), it is empty for an empty or whitespace-only L,
\* and normalize_name is idempotent.
C7_VisibleNonEmptyAndIdempotent ==
    /\ (npc \in {"once", "twice"} /\ HasVisibleChar(raw_label)) => canon # <<>>
    /\ (npc \in {"once", "twice"} /\ ~HasVisibleChar(raw_label)) => canon = <<>>
    /\ npc = "twice" => canon2 = canon

\* C7 witness: a label that starts with a CJK character and holds a space
\* was cut to its first token, and the second application was made.
C7_Witness ==
    /\ npc = "twice"
    /\ Len(raw_label) = 3 /\ raw_label[1] = "U+6309" /\ raw_label[2] = " "
    /\ raw_label[3] = "B"
    /\ canon = <<"U+6309">>

(***************************************************************************)
(* parse_overview                                                          *)
(***************************************************************************)
\* The literals of parse_overview, as Text.
BaseUrlText == S(BASE_URL)
Slash == S("/")
Marker == S("/components/")
HttpScheme == S("http://")
HttpsScheme == S("https://")

\* Optional strings: None, or a Text.
None == [none |-> TRUE]
Str(text) == [str |-> text]
IsStr(v) == "str" \in DOMAIN v

\* BASE_URL + href if href and href.startswith('/') else href
ResolveUrl(href) ==
    IF IsStr(href) /\ href.str # <<>> /\ StartsWith(href.str, Slash)
    THEN Str(BaseUrlText \o href.str)
    ELSE href

\* The dictionary appended to components for a label and an href.
RawSummary(label, href) ==
    [name |-> normalize_name(label), display_name |-> label,
     url |-> ResolveUrl(href), description |-> <<>>]

\* The first loop: one summary per card that has a title element.
RECURSIVE CardSummaries(_)
CardSummaries(cs) ==
    IF cs = <<>> THEN <<>>
    ELSE LET card == Head(cs) IN
         (IF card.has_title THEN <<RawSummary(card.title, card.href)>> ELSE <<>>)
             \o CardSummaries(Tail(cs))

\* The second loop: one summary per menu link.
MenuSummaries(ms) ==
    [i \in 1..Len(ms) |-> RawSummary(ms[i].text, Str(ms[i].href))]

\* is_valid without the test for an absolute URL.
is_valid_MarkerOnly(c) ==
    /\ IsStr(c.url)
    /\ c.url.str # <<>>
    /\ Contains(c.url.str, Marker)

\* is_valid(c)
is_valid(c) ==
    LET u == c.url IN
    IF ~IsStr(u) \/ u.str = <<>> \/ ~Contains(u.str, Marker)
    THEN FALSE
    ELSE IF ~(StartsWith(u.str, HttpScheme) \/ StartsWith(u.str, HttpsScheme))
    THEN FALSE
    ELSE TRUE

\* The dictionary cleaned is a sequence of [key, value] in insertion order;
\* assigning to a key it holds keeps the key's place.
HasKey(cleaned, key) == \E i \in 1..Len(cleaned) : cleaned[i].key = key
Lookup(cleaned, key) ==
    cleaned[CHOOSE i \in 1..Len(cleaned) : cleaned[i].key = key].value
Assign(cleaned, key, value) ==
    IF HasKey(cleaned, key)
    THEN [i \in 1..Len(cleaned) |->
            IF cleaned[i].key = key THEN [key |-> key, value |-> value]
            ELSE cleaned[i]]
    ELSE Append(cleaned, [key |-> key, value |-> value])

\* The merge step with >= in place of >: on a tie the last one seen wins.
Merge_LastWins(cleaned, c) ==
    LET key == lower(c.name) IN
    IF ~HasKey(cleaned, key)
         \/ Len(c.display_name) >= Len(Lookup(cleaned, key).display_name)
    THEN Assign(cleaned, key, c)
    ELSE cleaned

\* The body of the last loop for a valid c.
Merge(cleaned, c) ==
    LET key == lower(c.name) IN
    IF ~HasKey(cleaned, key)
         \/ Len(c.display_name) > Len(Lookup(cleaned, key).display_name)
    THEN Assign(cleaned, key, c)
    ELSE cleaned

\* The last loop.
RECURSIVE Clean(_, _)
Clean(comps, cleaned) ==
    IF comps = <<>> THEN cleaned
    ELSE LET c == Head(comps) IN
         Clean(Tail(comps), IF is_valid(c) THEN Merge(cleaned, c) ELSE cleaned)

\* list(cleaned.values())
Values(cleaned) == [i \in 1..Len(cleaned) |-> cleaned[i].value]

\* The list components of parse_overview: card entries, then menu entries.
RawComponents(cs, ms) == CardSummaries(cs) \o MenuSummaries(ms)

\* parse_overview, from the cards and menu links the selectors find.
parse_overview(cs, ms) == Values(Clean(RawComponents(cs, ms), <<>>))

\* Labels as get_text(strip=True) gives them: "Tag", "tag" + U+7B7E (the
\* same key, one character longer) and the CJK label U+6807 U+7B7E.
OverviewLabels == {S("Tag"), S("tag") \o Z(<<"7B7E">>), Z(<<"6807", "7B7E">>)}

\* href of a card's link: absent, site-relative with and without the
\* marker.
CardHrefs == {None, Str(S("/components/t/")), Str(S("/docs/t/"))}

\* href of a menu link; the selector a[href*="/components/"] only finds
\* links whose href holds the marker.
MenuHrefs == {S("/components/t/"), S("http://a/components/u/"), S("../components/t/")}

Cards ==
    {[has_title |-> TRUE, title |-> l, href |-> h] : l \in OverviewLabels, h \in CardHrefs}
        \cup {[has_title |-> FALSE, title |-> <<>>, href |-> Str(S("/components/t/"))]}
MenuLinks == {[text |-> l, href |-> h] : l \in OverviewLabels, h \in MenuHrefs}

SeqsUpTo(set, n) == UNION {[1..k -> set] : k \in 0..n}

OverviewInit ==
    /\ opc = "page"
    /\ cards \in SeqsUpTo(Cards, MaxRaw)
    /\ menu \in SeqsUpTo(MenuLinks, MaxRaw - Len(cards))
    /\ components = <<>>
    /\ catalog = <<>>

ParseOverview ==
    /\ opc = "page"
    /\ components' = RawComponents(cards, menu)
    /\ catalog' = parse_overview(cards, menu)
    /\ opc' = "parsed"
    /\ UNCHANGED <<cards, menu>>

InitOverview ==
    /\ ExportOff /\ NameOff /\ OverviewInit /\ ClassifyOff /\ RowOff
    /\ ServerOff /\ FetchOff

NextOverview ==
    ParseOverview /\ UNCHANGED <<exportVars, nameVars, classifyVars, rowVars, serverVars, fetchVars>>

SpecOverview == InitOverview /\ [][NextOverview]_vars

\* The valid raw extractions, in order.
ValidRaw == SelectSeq(components, is_valid)

\* C5: parse_overview returns exactly one summary per distinct lower-cased
\* name among the valid raw extractions; the kept one has the longest
\* display_name for its key, and among those of maximal length it is the
\* first one seen.
C5_OnePerKeyLongestFirst ==
    opc = "parsed" =>
        LET Keys == {lower(ValidRaw[j].name) : j \in 1..Len(ValidRaw)} IN
        /\ Len(catalog) = Cardinality(Keys)
        /\ {lower(catalog[i].name) : i \in 1..Len(catalog)} = Keys
        /\ \A i \in 1..Len(catalog) :
              \E j \in 1..Len(ValidRaw) :
                 /\ ValidRaw[j] = catalog[i]
                 /\ \A m \in 1..Len(ValidRaw) :
                       lower(ValidRaw[m].name) = lower(catalog[i].name) =>
                          /\ Len(ValidRaw[m].display_name) <= Len(catalog[i].display_name)
                          /\ m < j => Len(ValidRaw[m].display_name)
                                         < Len(catalog[i].display_name)

\* C5 witness: three valid extractions with one key, a short one and then
\* two different ones of the same greater length; the first long one is kept.
C5_Witness ==
    /\ opc = "parsed"
    /\ Len(ValidRaw) = 3
    /\ Len(ValidRaw[1].display_name) < Len(ValidRaw[2].display_name)
    /\ Len(ValidRaw[2].display_name) = Len(ValidRaw[3].display_name)
    /\ ValidRaw[2] # ValidRaw[3]
    /\ catalog = <<ValidRaw[2]>>

\* The URL is a non-empty absolute http(s) URL that holds the marker.
UrlOk(u) ==
    /\ "str" \in DOMAIN u
    /\ Len(u.str) > 0
    /\ StartsWith(u.str, HttpScheme) \/ StartsWith(u.str, HttpsScheme)
    /\ Contains(u.str, Marker)

\* C6: every summary parse_overview returns has a non-empty url that starts
\* with http:// or https:// and contains /components/; a raw extraction
\* whose url is missing, not absolute or without the marker is not in the
\* result, whichever pattern produced it.
C6_CatalogUrlsAbsoluteWithMarker ==
    opc = "parsed" =>
        /\ \A i \in 1..Len(catalog) : UrlOk(catalog[i].url)
        /\ \A j \in 1..Len(components) :
              ~UrlOk(components[j].url) =>
                 \A i \in 1..Len(catalog) : catalog[i] # components[j]

\* C6 witness: a card without href, a menu link with a relative href that
\* holds the marker, and a valid card were parsed; only the valid one is kept.
C6_Witness ==
    /\ opc = "parsed"
    /\ Len(cards) = 2 /\ Len(menu) = 1
    /\ cards[1].has_title /\ cards[1].href = None
    /\ cards[2].has_title /\ cards[2].href = Str(S("/components/t/"))
    /\ menu[1].href = S("../components/t/")
    /\ Len(catalog) = 1
    /\ catalog[1].url = Str(S("https://4x.ant.design/components/t/"))

(***************************************************************************)
(* parse_component.classify                                                *)
(***************************************************************************)
\* Header words, by code point.
ShiJian == Z(<<"4E8B", "4EF6">>)               \* "event"
HuiDiao == Z(<<"56DE", "8C03">>)               \* "callback"
FangFa == Z(<<"65B9", "6CD5">>)                \* "method"
HanShu == Z(<<"51FD", "6570">>)                \* "function"
CanShu == Z(<<"53C2", "6570">>)                \* "parameter"
ShuXing == Z(<<"5C5E", "6027">>)               \* "property"
ShuXingMing == Z(<<"5C5E", "6027", "540D">>)   \* "property name"
MingCheng == Z(<<"540D", "79F0">>)             \* "name"
PeiZhiXiang == Z(<<"914D", "7F6E", "9879">>)   \* "config item"
CanShuMing == Z(<<"53C2", "6570", "540D">>)    \* "parameter name"
ZiDuan == Z(<<"5B57", "6BB5">>)                \* "field"
XuanXiang == Z(<<"9009", "9879">>)             \* "option"
KePeiZhiXiang == Z(<<"53EF", "914D", "7F6E", "9879">>) \* "configurable item"
LeiXing == Z(<<"7C7B", "578B">>)               \* "type"
MoRen == Z(<<"9ED8", "8BA4">>)                 \* "default"
BiTian == Z(<<"5FC5", "586B">>)                \* "required"
BiXuan == Z(<<"5FC5", "9009">>)                \* "must choose"
KeXuanZhi == Z(<<"53EF", "9009", "503C">>)     \* "allowed values"
ShuoMing == Z(<<"8BF4", "660E">>)              \* "description"
MoRenZhi == Z(<<"9ED8", "8BA4", "503C">>)      \* "default value"
ShiJianMing == Z(<<"4E8B", "4EF6", "540D">>)   \* "event name"
FangFaMing == Z(<<"65B9", "6CD5", "540D">>)    \* "method name"
ShiLi == Z(<<"793A", "4F8B">>)                 \* "example"
XiaoGuo == Z(<<"6548", "679C">>)               \* "effect"
Api == S("API")

\* The keyword lists of classify, in the order of the code.
EventKeywords == <<ShiJian, HuiDiao, S("listener"), S("on")>>
MethodKeywords == <<FangFa, S("method"), HanShu>>
prop_keywords ==
    <<CanShu, ShuXing, ShuXingMing, MingCheng, PeiZhiXiang, CanShuMing, ZiDuan,
      S("Prop"), S("Property"), XuanXiang, KePeiZhiXiang>>
ApiFirstKeywords == <<LeiXing, MoRen, BiTian, BiXuan, KeXuanZhi>>
ApiSecondKeywords == <<LeiXing, MoRen, CanShu>>

\* ' '.join(header)
RECURSIVE Join(_)
Join(hdr) ==
    IF hdr = <<>> THEN <<>>
    ELSE IF Len(hdr) = 1 THEN hdr[1]
    ELSE hdr[1] \o <<" ">> \o Join(Tail(hdr))

\* any(k in text for k in keywords)
AnyIn(keywords, text) == \E n \in 1..Len(keywords) : Contains(text, keywords[n])

\* classify with the method test ahead of the event test.
classify_MethodsFirst(hdr) ==
    LET h_join == Join(hdr) IN
    IF AnyIn(MethodKeywords, h_join) THEN "methods"
    ELSE IF AnyIn(EventKeywords, h_join) THEN "events"
    ELSE IF AnyIn(prop_keywords, h_join) THEN "props"
    ELSE IF AnyIn(ApiFirstKeywords, h_join) /\ Contains(h_join, Api) THEN "props"
    ELSE IF Contains(h_join, Api) /\ AnyIn(ApiSecondKeywords, h_join) THEN "props"
    ELSE "other"

\* classify(header)
classify(hdr) ==
    LET h_join == Join(hdr) IN
    IF AnyIn(EventKeywords, h_join) THEN "events"
    ELSE IF AnyIn(MethodKeywords, h_join) THEN "methods"
    ELSE IF AnyIn(prop_keywords, h_join) THEN "props"
    ELSE IF AnyIn(ApiFirstKeywords, h_join) /\ Contains(h_join, Api) THEN "props"
    ELSE IF Contains(h_join, Api) /\ AnyIn(ApiSecondKeywords, h_join) THEN "props"
    ELSE "other"

\* Column labels of the headers classified.
HeaderLabels ==
    {ShiJianMing, ShuoMing, CanShu, LeiXing, MoRenZhi, FangFaMing, ShiLi,
     XiaoGuo, Api, BiTian, S("Option"), S("event"), S("callback")}

ClassifyInit ==
    /\ cpc = "header"
    /\ cheader \in SeqsUpTo(HeaderLabels, MaxHeader)
    /\ kind = "none"

\* kind = classify(header)
Classify ==
    /\ cpc = "header"
    /\ kind' = classify(cheader)
    /\ cpc' = "classified"
    /\ UNCHANGED cheader

InitClassify ==
    /\ ExportOff /\ NameOff /\ OverviewOff /\ ClassifyInit /\ RowOff
    /\ ServerOff /\ FetchOff

NextClassify ==
    Classify /\ UNCHANGED <<exportVars, nameVars, overviewVars, rowVars, serverVars, fetchVars>>

SpecClassify == InitClassify /\ [][NextClassify]_vars

\* Some column label of the header holds one of the keywords.
LabelMatches(hdr, keywords) ==
    \E i \in 1..Len(hdr) : \E k \in keywords :
        \E a \in 1..Len(hdr[i]) : \E b \in a..Len(hdr[i]) : SubSeq(hdr[i], a, b) = k

EventWords == {ShiJian, HuiDiao, S("listener"), S("on")}
MethodWords == {FangFa, S("method"), HanShu}
PropertyWords ==
    {CanShu, ShuXing, ShuXingMing, MingCheng, PeiZhiXiang, CanShuMing, ZiDuan,
     S("Prop"), S("Property"), XuanXiang, KePeiZhiXiang}

\* The category the priority events > methods > props > other gives, where
\* the rule for 'API' asks for one of the words apiWords beside it.
ByPriority(hdr, apiWords) ==
    IF LabelMatches(hdr, EventWords) THEN "events"
    ELSE IF LabelMatches(hdr, MethodWords) THEN "methods"
    ELSE IF LabelMatches(hdr, PropertyWords) THEN "props"
    ELSE IF LabelMatches(hdr, {Api}) /\ LabelMatches(hdr, apiWords) THEN "props"
    ELSE "other"

\* The four headers the claim names.
C8_Examples ==
    /\ classify(<<ShiJianMing, ShuoMing>>) = "events"
    /\ classify(<<CanShu, ShuoMing, LeiXing, MoRenZhi>>) = "props"
    /\ classify(<<FangFaMing, ShuoMing>>) = "methods"
    /\ classify(<<ShiLi, XiaoGuo>>) = "other"

\* C8 as stated: the category follows the priority events > methods >
\* props > other, where a header is 'props' by its property keywords or by
\* 'API' together with a type, default or parameter keyword, and a header
\* matching none of these is 'other'; the four example headers classify
\* as events, props, methods and other.
C8_PriorityTypeDefaultParameter ==
    /\ cpc = "classified" => kind = ByPriority(cheader, {LeiXing, MoRen, CanShu})
    /\ C8_Examples

\* C8 amended: as stated, except that 'API' makes a header 'props' together
\* with a type, default, required (two spellings), allowed-values or
\* parameter keyword; a header matching none of these is 'other'.
C8_PriorityWithRequiredAndOptions ==
    /\ cpc = "classified" =>
          kind = ByPriority(cheader, {LeiXing, MoRen, BiTian, BiXuan, KeXuanZhi, CanShu})
    /\ C8_Examples

\* C8 witness: a header with an event, a method and a property keyword was
\* classified as events.
C8_Witness ==
    /\ cpc = "classified"
    /\ cheader = <<CanShu, FangFaMing, ShiJianMing>>
    /\ kind = "events"

(***************************************************************************)
(* parse_component: row extraction and normalize_row                       *)
(***************************************************************************)
\* Python values held by a row or a normalized row: Str(text) (above),
\* booleans, lists of strings and dictionaries.  A dictionary is a sequence
\* of [key, value] in insertion order (HasKey, Lookup, Assign above).
Bool(b) == [bool |-> b]
List(texts) == [list |-> texts]
Dict(d) == [dict |-> d]

MiaoShu == Z(<<"63CF", "8FF0">>)
BeiZhu == Z(<<"5907", "6CE8">>)
HanYi == Z(<<"542B", "4E49">>)
ShuJuLeiXing == Z(<<"6570", "636E", "7C7B", "578B">>)
QueShengZhi == Z(<<"7F3A", "7701", "503C">>)
BanBen == Z(<<"7248", "672C">>)
KeXuan == Z(<<"53EF", "9009">>)
MeiJu == Z(<<"679A", "4E3E">>)
ShiFouBiTian == Z(<<"662F", "5426", "5FC5", "586B">>)
ShiFouBiXuan == Z(<<"662F", "5426", "5FC5", "9009">>)
Shi == Z(<<"662F">>)                           \* "yes"
Fou == Z(<<"5426">>)                           \* "no"
BiXu == Z(<<"5FC5", "987B">>)                  \* "must"
XuanTian == Z(<<"9009", "586B">>)              \* "optional"

KeyRaw == S("raw")
KeyCells == S("cells")
KeyName == S("name")
KeyRequired == S("required")

\* header_synonyms: label -> canonical field.
header_synonyms ==
    [k \in {CanShu, ShuXing, ShuXingMing, MingCheng, PeiZhiXiang, CanShuMing,
            ZiDuan, S("Prop"), S("Property"), KePeiZhiXiang} |-> KeyName]
    @@ [k \in {ShuoMing, MiaoShu, BeiZhu, HanYi} |-> S("description")]
    @@ [k \in {LeiXing, S("Type"), ShuJuLeiXing} |-> S("type")]
    @@ [k \in {MoRenZhi, MoRen, QueShengZhi} |-> S("default")]
    @@ [k \in {BanBen, S("Since")} |-> S("version")]
    @@ [k \in {KeXuanZhi, XuanXiang, KeXuan, MeiJu} |-> S("options")]
    @@ [k \in {ShiFouBiTian, BiTian, BiXuan, ShiFouBiXuan} |-> KeyRequired]

\* header_synonyms.get(h, h)
Synonym(h) == IF h \in DOMAIN header_synonyms THEN header_synonyms[h] ELSE h

\* {header[i]: cells[i] for i in range(len(header))}
RECURSIVE ZipDict(_, _, _)
ZipDict(hdr, cs, d) ==
    IF hdr = <<>> THEN d
    ELSE ZipDict(Tail(hdr), Tail(cs), Assign(d, Head(hdr), Str(Head(cs))))

\* The row record built for the cells of one tr (the cells are not empty).
ExtractRow(hdr, cs) ==
    IF hdr # <<>> /\ Len(hdr) = Len(cs)
    THEN ZipDict(hdr, cs, <<>>)
    ELSE <<[key |-> KeyCells, value |-> List(cs)]>>

\* len(v) and v[i] (i from 0) for a string or a list of strings.
PyLen(v) == IF IsStr(v) THEN Len(v.str) ELSE Len(v.list)
PyItem(v, i) == IF IsStr(v) THEN Str(<<v.str[i + 1]>>) ELSE Str(v.list[i + 1])

\* The loop over enumerate(header) of the 'cells' branch, from column i.
RECURSIVE FromCells(_, _, _, _)
FromCells(row, hdr, i, n) ==
    IF i >= Len(hdr) THEN n
    ELSE LET key == Synonym(hdr[i + 1])
             cs == Lookup(row, KeyCells)
         IN  FromCells(row, hdr, i + 1,
                       IF i < PyLen(cs) THEN Assign(n, key, PyItem(cs, i)) ELSE n)

\* The loop over row.items() of the other branch.
RECURSIVE FromItems(_, _)
FromItems(items, n) ==
    IF items = <<>> THEN n
    ELSE FromItems(Tail(items), Assign(n, Synonym(Head(items).key), Head(items).value))

\* if name: normalized['name'] = name.split('\n')[0].strip()
CleanName(n) ==
    IF HasKey(n, KeyName) /\ IsStr(Lookup(n, KeyName))
          /\ Lookup(n, KeyName).str # <<>>
    THEN Assign(n, KeyName, Str(strip(FirstField(Lookup(n, KeyName).str, {"\n"}))))
    ELSE n

AffirmativeTokens == <<Shi, BiTian, BiXuan, S("true"), BiXu>>
NegativeTokens == <<Fou, KeXuan, S("false"), XuanTian>>

\* The normalization of the required flag.
CleanRequired(n) ==
    IF HasKey(n, KeyRequired) /\ IsStr(Lookup(n, KeyRequired))
    THEN LET req_val == Lookup(n, KeyRequired).str IN
         IF AnyIn(AffirmativeTokens, req_val) THEN Assign(n, KeyRequired, Bool(TRUE))
         ELSE IF AnyIn(NegativeTokens, req_val) THEN Assign(n, KeyRequired, Bool(FALSE))
         ELSE n
    ELSE n

\* normalize_row(row, header)
normalize_row(row, hdr) ==
    LET start == <<[key |-> KeyRaw, value |-> Dict(row)]>>
        mapped == IF HasKey(row, KeyCells)
                  THEN FromCells(row, hdr, 0, start)
                  ELSE FromItems(row, start)
    IN  CleanRequired(CleanName(mapped))

\* Column labels of the tables whose rows are normalized: two name columns,
\* a required column, and columns labelled raw and cells.
RowLabels == {CanShu, ShuXing, BiTian, KeyRaw, KeyCells}

\* Cell texts as td.get_text('\n', strip=True) gives them: empty, "yes",
\* "no", and two lines.
CellTexts == {<<>>, Shi, Fou, <<"a", "\n", "b">>}

RowInit ==
    /\ rpc = "table"
    /\ header \in SeqsUpTo(RowLabels, MaxCols)
    /\ cells \in SeqsUpTo(CellTexts, MaxCols + 1) \ {<<>>}
    /\ row_dict = <<>>
    /\ tkind = "none"
    /\ normalized = <<>>

\* The table loop for a table of one row: the row record and the kind.
ParseTable ==
    /\ rpc = "table"
    /\ row_dict' = ExtractRow(header, cells)
    /\ tkind' = classify(header)
    /\ rpc' = "parsed"
    /\ UNCHANGED <<header, cells, normalized>>

\* The loop over props_tables: the row of a props table is normalized.
NormalizeRow ==
    /\ rpc = "parsed"
    /\ tkind = "props"
    /\ normalized' = normalize_row(row_dict, header)
    /\ rpc' = "normalized"
    /\ UNCHANGED <<header, cells, row_dict, tkind>>

InitRow ==
    /\ ExportOff /\ NameOff /\ OverviewOff /\ ClassifyOff /\ RowInit
    /\ ServerOff /\ FetchOff

NextRow ==
    \/ ParseTable /\ UNCHANGED <<exportVars, nameVars, overviewVars, classifyVars, serverVars, fetchVars>>
    \/ NormalizeRow /\ UNCHANGED <<exportVars, nameVars, overviewVars, classifyVars, serverVars, fetchVars>>

SpecRow == InitRow /\ [][NextRow]_vars

\* The table is plain: as many cells as columns, no label twice, no column
\* labelled raw, cells or required.
PlainTable ==
    /\ Len(header) = Len(cells)
    /\ \A i, j \in 1..Len(header) : header[i] = header[j] => i = j
    /\ \A i \in 1..Len(header) : header[i] \notin {KeyRaw, KeyCells, KeyRequired}

\* The cell holds a token normalize_row recognizes.
Recognized(cell) ==
    \E k \in {Shi, BiTian, BiXuan, S("true"), BiXu, Fou, KeXuan, S("false"), XuanTian} :
        Contains(cell, k)

\* C9: 'required' of a normalized property row is true when the source cell
\* is "yes" (U+662F), false when it is "no" (U+5426), and for an empty or
\* unrecognized source cell the field 'required' is absent.
C9_RequiredTriState ==
    (rpc = "normalized" /\ PlainTable) =>
        \A i \in 1..Len(header) :
            header[i] = BiTian =>
                /\ cells[i] = Shi =>
                      \E k \in 1..Len(normalized) :
                          normalized[k] = [key |-> KeyRequired, value |-> Bool(TRUE)]
                /\ cells[i] = Fou =>
                      \E k \in 1..Len(normalized) :
                          normalized[k] = [key |-> KeyRequired, value |-> Bool(FALSE)]
                /\ ~Recognized(cells[i]) =>
                      \A k \in 1..Len(normalized) : normalized[k].key # KeyRequired

\* The part of C9 the code has: the recognized cells become booleans.
C9_RecognizedBecomeBooleans ==
    (rpc = "normalized" /\ PlainTable) =>
        \A i \in 1..Len(header) :
            header[i] = BiTian =>
                /\ cells[i] = Shi => Lookup(normalized, KeyRequired) = Bool(TRUE)
                /\ cells[i] = Fou => Lookup(normalized, KeyRequired) = Bool(FALSE)

\* The cell texts a row record holds, in column order.
CellsOf(record) ==
    IF HasKey(record, KeyCells) /\ ~IsStr(Lookup(record, KeyCells))
    THEN Lookup(record, KeyCells).list
    ELSE [i \in 1..Len(header) |->
            IF HasKey(record, header[i]) THEN Lookup(record, header[i]).str ELSE <<>>]

\* C10: for every row of a props table and every header (repeated labels,
\* labels spelled raw or cells, a cell count other than the header length),
\* 'raw' of the normalized row is the original row record and gives back
\* the row's cell texts, in column order.
C10_RawRoundTrip ==
    rpc = "normalized" =>
        /\ HasKey(normalized, KeyRaw)
        /\ Lookup(normalized, KeyRaw) = Dict(row_dict)
        /\ CellsOf(row_dict) = cells

\* C10 holds for the plain tables and for the rows kept as a list.
C10_RawRoundTripPlain ==
    (/\ rpc = "normalized"
     /\ \A i, j \in 1..Len(header) : header[i] = header[j] => i = j
     /\ \A i \in 1..Len(header) : header[i] # KeyRaw) =>
        /\ Lookup(normalized, KeyRaw) = Dict(row_dict)
        /\ CellsOf(row_dict) = cells

(***************************************************************************)
(* The tool server (src/src/server.py): JSON values                        *)
(***************************************************************************)
\* Values json.loads gives and the handlers pass around: None, booleans
\* (Bool above), numbers, strings, lists (List above) and objects.  An
\* object is a record of the keys the code reads; a key the object lacks
\* holds Absent.  A string is a TLA+ string here.
Absent == [absent |-> TRUE]
Num(n) == [num |-> n]
JStr(s) == [jstr |-> s]
Obj(fields) == [obj |-> fields]
IsObj(v) == "obj" \in DOMAIN v
IsJStr(v) == "jstr" \in DOMAIN v

\* d.get(key, default) for an object d.
Get(d, key, default) == IF d.obj[key] = Absent THEN default ELSE d.obj[key]

\* bool(v)
Truthy(v) ==
    CASE "none" \in DOMAIN v -> FALSE
      [] "bool" \in DOMAIN v -> v.bool
      [] "num" \in DOMAIN v -> v.num # 0
      [] "jstr" \in DOMAIN v -> v.jstr # ""
      [] "list" \in DOMAIN v -> v.list # <<>>
      [] "obj" \in DOMAIN v -> \E k \in DOMAIN v.obj : v.obj[k] # Absent

\* Lists and dictionaries cannot be hashed.
Hashable(v) == "list" \notin DOMAIN v /\ "obj" \notin DOMAIN v

\* type(v).__name__
TypeName(v) ==
    CASE "none" \in DOMAIN v -> "NoneType"
      [] "bool" \in DOMAIN v -> "bool"
      [] "num" \in DOMAIN v -> "int"
      [] "jstr" \in DOMAIN v -> "str"
      [] "list" \in DOMAIN v -> "list"
      [] "obj" \in DOMAIN v -> "dict"

\* str(v) inside an f-string, for the values that can be hashed.
Format(v) ==
    CASE "none" \in DOMAIN v -> "None"
      [] "bool" \in DOMAIN v -> IF v.bool THEN "True" ELSE "False"
      [] "num" \in DOMAIN v -> ToString(v.num)
      [] "jstr" \in DOMAIN v -> v.jstr

\* str(e) of the exceptions the dispatcher can meet.
AttributeError(v, attr) ==
    "'" \o TypeName(v) \o "' object has no attribute '" \o attr \o "'"
Unhashable(v) == "unhashable type: '" \o TypeName(v) \o "'"
KeyError(key) == "'" \o key \o "'"
StringIndex == "string indices must be integers"

\* The keys of TOOLS, in order.
TOOLS ==
    <<"list_components", "get_component", "search_components", "export_all",
      "get_component_props">>
ToolNames == {TOOLS[i] : i \in 1..Len(TOOLS)}

\* rpc_result(id_, result) and rpc_error(id_, code, message)
rpc_result(id_, result) == [jsonrpc |-> "2.0", id |-> id_, result |-> result]
rpc_error(id_, code, message) ==
    [jsonrpc |-> "2.0", id |-> id_, error |-> [code |-> code, message |-> message]]

(***************************************************************************)
(* The tool server: the two caches and the handlers                        *)
(***************************************************************************)
\* The state a call works on: the two module-level caches, the cache
\* directory and the export files.  A call gives a set of outcomes: it
\* returns a value or raises an error, leaves a state, and has issued the
\* live requests 'live'.
Returned(st, value, live) ==
    [raised |-> FALSE, value |-> value, st |-> st, live |-> live]
Raised(st, error, live) ==
    [raised |-> TRUE, error |-> error, st |-> st, live |-> live]

\* ensure_index that fetches only when the cache is empty.
ensure_index_IgnoreForce(st, f) ==
    IF st.index_cache = None
    THEN {IF o.raised
          THEN Raised([st EXCEPT !.disk = o.disk], o.error, o.live)
          ELSE Returned([st EXCEPT !.index_cache = [catalog |-> o.index],
                                   !.disk = o.disk], o.index, o.live) :
             o \in build_component_index(st.disk, f)}
    ELSE {Returned(st, st.index_cache.catalog, <<>>)}

\* ensure_index(force=f)
ensure_index(st, f) ==
    IF st.index_cache = None \/ f
    THEN {IF o.raised
          THEN Raised([st EXCEPT !.disk = o.disk], o.error, o.live)
          ELSE Returned([st EXCEPT !.index_cache = [catalog |-> o.index],
                                   !.disk = o.disk], o.index, o.live) :
             o \in build_component_index(st.disk, f)}
    ELSE {Returned(st, st.index_cache.catalog, <<>>)}

\* handle_list_components(params)
handle_list_components(st, params) ==
    IF ~IsObj(params) THEN {Raised(st, AttributeError(params, "get"), <<>>)}
    ELSE LET f == Truthy(Get(params, "force", Bool(FALSE))) IN
         {IF i.raised THEN i ELSE Returned(i.st, [items |-> i.value], i.live) :
             i \in ensure_index(st, f)}

\* _details_cache[url] = detail
Store(cache, url, detail) ==
    [u \in DOMAIN cache \cup {url} |-> IF u = url THEN detail ELSE cache[u]]

\* The positions of the catalog entries whose name matches name without
\* regard to case.
Matching(idx, name) ==
    {k \in 1..Len(idx) : lower(S(idx[k].name)) = lower(S(name.jstr))}

\* cached_detail that drops the cached entry before it fetches again.
cached_detail_EvictFirst(st, idx, name, f, live) ==
    IF ~IsJStr(name)
    THEN IF idx = <<>>
         THEN {Returned(st, [error |-> "Component " \o Format(name) \o " not found"],
                        live)}
         ELSE {Raised(st, AttributeError(name, "lower"), live)}
    ELSE IF Matching(idx, name) = {}
    THEN {Returned(st, [error |-> "Component " \o Format(name) \o " not found"], live)}
    ELSE LET first == CHOOSE k \in Matching(idx, name) :
                          \A m \in Matching(idx, name) : k <= m
             target == idx[first].url
             evicted == [u \in DOMAIN st.details_cache \ {target} |->
                            st.details_cache[u]]
         IN  IF target \notin DOMAIN st.details_cache \/ f
             THEN {IF o.raised
                   THEN Raised([st EXCEPT !.details_cache = evicted, !.disk = o.disk],
                               o.error, live \o o.live)
                   ELSE Returned([st EXCEPT
                                     !.details_cache = Store(@, target, o.detail),
                                     !.disk = o.disk],
                                 o.detail, live \o o.live) :
                      o \in get_component_detail(st.disk, target, f)}
             ELSE {Returned(st, st.details_cache[target], live)}

\* cached_detail that raises when no catalog entry matches.
cached_detail_Raises(st, idx, name, f, live) ==
    IF ~IsJStr(name)
    THEN IF idx = <<>>
         THEN {Raised(st, "Component " \o Format(name) \o " not found", live)}
         ELSE {Raised(st, AttributeError(name, "lower"), live)}
    ELSE IF Matching(idx, name) = {}
    THEN {Raised(st, "Component " \o Format(name) \o " not found", live)}
    ELSE LET first == CHOOSE k \in Matching(idx, name) :
                          \A m \in Matching(idx, name) : k <= m
             target == idx[first].url
         IN  IF target \notin DOMAIN st.details_cache \/ f
             THEN {IF o.raised
                   THEN Raised([st EXCEPT !.disk = o.disk], o.error, live \o o.live)
                   ELSE Returned([st EXCEPT
                                     !.details_cache = Store(@, target, o.detail),
                                     !.disk = o.disk],
                                 o.detail, live \o o.live) :
                      o \in get_component_detail(st.disk, target, f)}
             ELSE {Returned(st, st.details_cache[target], live)}

\* Lines 56-62 and 85-91: find the target, then the detail through
\* _details_cache.  The value is the detail, or the record of line 58.
cached_detail(st, idx, name, f, live) ==
    IF ~IsJStr(name)
    THEN IF idx = <<>>
         THEN {Returned(st, [error |-> "Component " \o Format(name) \o " not found"],
                        live)}
         ELSE {Raised(st, AttributeError(name, "lower"), live)}
    ELSE IF Matching(idx, name) = {}
    THEN {Returned(st, [error |-> "Component " \o Format(name) \o " not found"], live)}
    ELSE LET first == CHOOSE k \in Matching(idx, name) :
                          \A m \in Matching(idx, name) : k <= m
             target == idx[first].url
         IN  IF target \notin DOMAIN st.details_cache \/ f
             THEN {IF o.raised
                   THEN Raised([st EXCEPT !.disk = o.disk], o.error, live \o o.live)
                   ELSE Returned([st EXCEPT
                                     !.details_cache = Store(@, target, o.detail),
                                     !.disk = o.disk],
                                 o.detail, live \o o.live) :
                      o \in get_component_detail(st.disk, target, f)}
             ELSE {Returned(st, st.details_cache[target], live)}

\* Lines 51-55 and 80-84, then cached_detail.
named_detail(st, params) ==
    IF ~IsObj(params) THEN {Raised(st, AttributeError(params, "get"), <<>>)}
    ELSE LET name == Get(params, "name", None) IN
         IF ~Truthy(name)
         THEN {Returned(st, [error |-> "Component name not provided in arguments"],
                        <<>>)}
         ELSE LET f == Truthy(Get(params, "force", Bool(FALSE))) IN
              UNION {IF i.raised THEN {i}
                     ELSE cached_detail(i.st, i.value, name, f, i.live) :
                        i \in ensure_index(st, f)}

\* handle_get_component(params)
handle_get_component(st, params) == named_detail(st, params)

\* detail.get('props_flat', []): the property rows parse_component finds on
\* a page; the first page has none, the second has one.
props_flat(detail) == IF detail.html = "page-a" THEN <<>> ELSE <<"size">>

\* handle_get_component_props(params)
handle_get_component_props(st, params) ==
    {IF o.raised \/ "error" \in DOMAIN o.value THEN o
     ELSE Returned(o.st,
                   [component |-> Get(params, "name", None).jstr,
                    props_flat |-> props_flat(o.value),
                    count |-> Len(props_flat(o.value))],
                   o.live) :
        o \in named_detail(st, params)}

\* handle_search_components(params)
handle_search_components(st, params) ==
    IF ~IsObj(params) THEN {Raised(st, StringIndex, <<>>)}
    ELSE IF params.obj["query"] = Absent THEN {Raised(st, KeyError("query"), <<>>)}
    ELSE IF ~IsJStr(params.obj["query"])
    THEN {Raised(st, AttributeError(params.obj["query"], "lower"), <<>>)}
    ELSE LET query == lower(S(params.obj["query"].jstr))
             Hit(c) == \/ Contains(lower(S(c.name)), query)
                       \/ Contains(<<>>, query)     \* c.get('description', '')
         IN  {IF i.raised THEN i
              ELSE Returned(i.st, [items |-> SelectSeq(i.value, Hit)], i.live) :
                 i \in ensure_index(st, FALSE)}

\* handle_export_all(params): the handler reads its arguments and calls
\* export_all_components(force=force, filepath=filepath), which runs as the
\* actions ExportStart .. ExportFinish above; the outcome names the call.
handle_export_all(st, params) ==
    IF ~IsObj(params) THEN {Raised(st, AttributeError(params, "get"), <<>>)}
    ELSE LET f == Truthy(Get(params, "force", Bool(FALSE)))
             filepath_ == Get(params, "filepath", None)
         IN  {[raised |-> FALSE,
               call |-> [force |-> f,
                         filepath |-> IF IsJStr(filepath_) THEN filepath_.jstr
                                      ELSE NoPath],
               st |-> st, live |-> <<>>]}

\* process_tool_call(tool_name, arguments)
process_tool_call(st, tool_name, arguments) ==
    CASE tool_name = "list_components" -> handle_list_components(st, arguments)
      [] tool_name = "get_component" -> handle_get_component(st, arguments)
      [] tool_name = "search_components" -> handle_search_components(st, arguments)
      [] tool_name = "export_all" -> handle_export_all(st, arguments)
      [] tool_name = "get_component_props" ->
             handle_get_component_props(st, arguments)
      [] OTHER ->
             {Returned(st, [error |-> "Tool " \o tool_name \o " not implemented"],
                       <<>>)}

\* {} as params and as arguments
NoParams == Obj([name |-> Absent, arguments |-> Absent])
NoArguments ==
    Obj([name |-> Absent, force |-> Absent, query |-> Absent, filepath |-> Absent])

\* [tool metadata for name, meta in TOOLS.items()], a tool given by its name
tools_meta == [i \in 1..Len(TOOLS) |-> [name |-> TOOLS[i]]]

\* process_request(req)
process_request(st, req) ==
    IF ~IsObj(req) THEN {Raised(st, AttributeError(req, "get"), <<>>)}
    ELSE
    LET method == Get(req, "method", None)
        id_ == Get(req, "id", None)
    IN  IF method = JStr("tools/list")
        THEN {Returned(st, rpc_result(id_, [tools |-> tools_meta]), <<>>)}
        ELSE IF method = JStr("tools/call")
        THEN LET params == Get(req, "params", NoParams) IN
             IF ~IsObj(params) THEN {Raised(st, AttributeError(params, "get"), <<>>)}
             ELSE
             LET tool_name == Get(params, "name", None)
                 given == Get(params, "arguments", NoArguments)
                 arguments == IF Truthy(given) THEN given ELSE NoArguments
             IN  IF ~Hashable(tool_name)
                 THEN {Raised(st, Unhashable(tool_name), <<>>)}
                 ELSE IF ~IsJStr(tool_name) \/ tool_name.jstr \notin ToolNames
                 THEN {Returned(st, rpc_error(id_, -32601,
                                              "Unknown tool " \o Format(tool_name)),
                                <<>>)}
                 ELSE {IF o.raised
                       THEN Returned(o.st,
                                     rpc_error(id_, -32603,
                                               "Internal error: " \o o.error),
                                     o.live)
                       ELSE IF "call" \in DOMAIN o THEN o
                       ELSE Returned(o.st, rpc_result(id_, [content |-> o.value]),
                                     o.live) :
                          o \in process_tool_call(st, tool_name.jstr, arguments)}
        ELSE {Returned(st, rpc_error(id_, -32601, "Unknown method " \o Format(method)),
                       <<>>)}

(***************************************************************************)
(* The tool server: the serving loop of main                               *)
(***************************************************************************)
\* A line of standard input after strip(): empty, text json.loads rejects,
\* or text json.loads accepts, given by the value it parses to.
BlankLine == [blank |-> TRUE]
GarbageLine == [garbage |-> TRUE]
JsonLine(v) == [json |-> v]

\* str(e) of json.loads for the rejected line.
JsonError == "Expecting value: line 1 column 1 (char 0)"

Request(method, id_, params) ==
    Obj([method |-> method, id |-> id_, params |-> params])
Call(id_, name, arguments) ==
    Request(JStr("tools/call"), id_, Obj([name |-> name, arguments |-> arguments]))
Arguments(name, f, query, p) ==
    Obj([name |-> name, force |-> f, query |-> query, filepath |-> p])

\* The requests that arrive: with and without id, method and params; params
\* that is null or a list; tool names that are missing, unknown, a number or
\* a list; arguments that are missing or a string; and calls of the five
\* tools with names that match, do not match, are empty or are a number.
Ids == {Absent, Num(7)}
Forces == {Bool(FALSE), Bool(TRUE)}
Requests ==
    {Request(m, i, Absent) :
        m \in {Absent, JStr("tools/list"), JStr("tools/call"), JStr("ping")},
        i \in Ids}
    \cup {Request(JStr("tools/call"), Num(7), p) : p \in {None, List(<<>>)}}
    \cup {Call(i, n, Absent) :
             i \in Ids, n \in {Absent, JStr("nope"), Num(5), List(<<>>)}}
    \cup {Call(Num(7), JStr(t), a) : t \in ToolNames, a \in {Absent, JStr("x")}}
    \cup {Call(Num(7), JStr(t), Arguments(n, f, Absent, Absent)) :
             t \in {"get_component", "get_component_props"},
             n \in {JStr(""), JStr("button"), JStr("Modal"), Num(5)},
             f \in Forces}
    \cup {Call(Num(7), JStr("list_components"), Arguments(Absent, f, Absent, Absent)) :
             f \in Forces}
    \cup {Call(Num(7), JStr("search_components"),
               Arguments(Absent, Absent, q, Absent)) :
             q \in {JStr(""), JStr("BUT"), Num(5)}}
    \cup {Call(Num(7), JStr("export_all"), Arguments(Absent, f, Absent, Absent)) :
             f \in Forces}

\* What json.loads gives for the accepted lines: the requests, and values
\* that are not objects.
Parsed == Requests \cup {None, Num(5), List(<<>>)}

\* The site of the served runs: the overview parses to an empty catalog or
\* to the one component Button.
ServedCatalogs == {<<>>, <<Summary("Button")>>}
ServedFiles == {cache_file(OverviewUrl), cache_file(Summary("Button").url)}
Served(d) ==
    /\ DOMAIN d \subseteq ServedFiles
    /\ cache_file(OverviewUrl) \in DOMAIN d => d[cache_file(OverviewUrl)] \in ServedCatalogs

\* The state the handlers work on.
ServerState ==
    [index_cache |-> index_cache, details_cache |-> details_cache, disk |-> disk]

exportLocals == <<pc, force, validate, filepath, index, pos, all_details, ret, failures>>
ExportIdle ==
    /\ pc = "off" /\ force = FALSE /\ validate = TRUE /\ filepath = NoPath
    /\ index = <<>> /\ pos = 0 /\ all_details = <<>> /\ ret = [none |-> TRUE]
    /\ failures = 0

ServerInit ==
    /\ disk \in {d \in EarlierCaches : Served(d)}
    /\ exportFile = <<>>
    /\ requests = <<>>
    /\ ExportIdle
    /\ index_cache = None
    /\ details_cache = <<>>
    /\ mpc = "serving"
    /\ line = None
    /\ out = <<>>

\* Lines 181-183: an empty line is skipped.
SkipBlankLine ==
    /\ mpc = "serving"
    /\ line' = BlankLine
    /\ out' = <<>>
    /\ requests' = <<>>
    /\ UNCHANGED <<index_cache, details_cache, disk, exportFile, mpc, exportLocals>>

\* Lines 184-188: json.loads raises, the parse error is emitted.
AnswerParseError ==
    /\ mpc = "serving"
    /\ line' = GarbageLine
    /\ out' = <<rpc_error(None, -32700, "Parse error: " \o JsonError)>>
    /\ requests' = <<>>
    /\ UNCHANGED <<index_cache, details_cache, disk, exportFile, mpc, exportLocals>>

\* Line 190: process_request returned o.value, emit writes it.
Answer(o) ==
    /\ "value" \in DOMAIN o
    /\ out' = <<o.value>>
    /\ UNCHANGED <<mpc, exportLocals>>

\* Line 189: process_request raised; nothing catches the exception and the
\* process ends with a traceback.
Die(o) ==
    /\ o.raised
    /\ out' = <<>>
    /\ mpc' = "crashed"
    /\ UNCHANGED exportLocals

\* Line 132 reached handle_export_all, which calls export_all_components.
CallExport(o) ==
    /\ "call" \in DOMAIN o
    /\ out' = <<>>
    /\ mpc' = "exporting"
    /\ pc' = "idle"
    /\ force' = o.call.force
    /\ filepath' = o.call.filepath
    /\ UNCHANGED <<validate, index, pos, all_details, ret, failures>>

\* Lines 185 and 189-190 for a line json.loads accepts as req.
Serve(req) ==
    /\ mpc = "serving"
    /\ line' = JsonLine(req)
    /\ \E o \in process_request(ServerState, req) :
          /\ Served(o.st.disk)
          /\ index_cache' = o.st.index_cache
          /\ details_cache' = o.st.details_cache
          /\ disk' = o.st.disk
          /\ requests' = o.live
          /\ Answer(o) \/ Die(o) \/ CallExport(o)
    /\ UNCHANGED exportFile

\* export_all_components runs inside the call; the site serves one of
\* ServedCatalogs.
Exporting(step) ==
    /\ mpc = "exporting"
    /\ step
    /\ Served(disk')
    /\ UNCHANGED serverVars

\* Lines 131-135 around handle_export_all, and line 190: the summary
\* export_all_components returned, or the exception it raised, is emitted.
AnswerExport ==
    /\ mpc = "exporting"
    /\ pc \in {"returned", "raised"}
    /\ LET id_ == Get(line.json, "id", None) IN
       out' = <<IF pc = "raised"
                THEN rpc_error(id_, -32603, "Internal error: " \o ret.raised)
                ELSE rpc_result(id_, [content |-> ret])>>
    /\ mpc' = "serving"
    /\ pc' = "off" /\ force' = FALSE /\ validate' = TRUE /\ filepath' = NoPath
    /\ index' = <<>> /\ pos' = 0 /\ all_details' = <<>> /\ ret' = [none |-> TRUE]
    /\ failures' = 0
    /\ UNCHANGED <<index_cache, details_cache, disk, exportFile, requests, line>>

\* Line 178: standard input is at its end, main returns.
EndOfInput ==
    /\ mpc = "serving"
    /\ mpc' = "exited"
    /\ UNCHANGED <<index_cache, details_cache, disk, exportFile, requests, line, out,
                   exportLocals>>

InitServer ==
    /\ ServerInit /\ NameOff /\ OverviewOff /\ ClassifyOff /\ RowOff /\ FetchOff

serverFrame == <<nameVars, overviewVars, classifyVars, rowVars, fetchVars>>

NextServer ==
    \/ SkipBlankLine /\ UNCHANGED serverFrame
    \/ AnswerParseError /\ UNCHANGED serverFrame
    \/ \E req \in Parsed : Serve(req) /\ UNCHANGED serverFrame
    \/ Exporting(ExportStart(force, validate, filepath)) /\ UNCHANGED serverFrame
    \/ Exporting(ExportCatalogFails(force, validate, filepath))
          /\ UNCHANGED serverFrame
    \/ Exporting(ExportDetail) /\ UNCHANGED serverFrame
    \/ Exporting(ExportDetailFails) /\ UNCHANGED serverFrame
    \/ Exporting(ExportFinish) /\ UNCHANGED serverFrame
    \/ AnswerExport /\ UNCHANGED serverFrame
    \/ EndOfInput /\ UNCHANGED serverFrame

SpecServer == InitServer /\ [][NextServer]_vars


(***************************************************************************)
(* Properties of the tool server (specification SpecServer)                *)
(***************************************************************************)
\* The step is an iteration of the serving loop that took a line.
TookLine == mpc = "serving" /\ mpc' # "exited"

\* The line parsed to a 'tools/call' request with an object as params.
IsToolCall(l) ==
    /\ "json" \in DOMAIN l
    /\ IsObj(l.json)
    /\ l.json.obj["method"] = JStr("tools/call")
    /\ IsObj(l.json.obj["params"])

\* params.name and params.arguments of a tool call, and the request's id.
NameOf(l) == Get(l.json.obj["params"], "name", None)
ArgumentsOf(l) == Get(l.json.obj["params"], "arguments", NoArguments)
IdOf(l) == Get(l.json, "id", None)

\* The envelope is {jsonrpc, id, error} with the given id and code.
IsErrorEnvelope(e, id_, code) ==
    /\ DOMAIN e = {"jsonrpc", "id", "error"}
    /\ e.jsonrpc = "2.0"
    /\ e.id = id_
    /\ e.error.code = code

\* C11: a 'tools/call' request whose params.name is not one of the five
\* registered tools (a missing name, an unknown string, a number, a list) is
\* answered by the error envelope with code -32601 and the request's id;
\* process_request does not raise, no handler runs, no request is issued
\* and the caches stay as they were.  A name that cannot be hashed makes
\* the membership test of line 129 raise.
C11_UnknownToolIsMethodNotFound ==
    [][(TookLine /\ IsToolCall(line')
           /\ NameOf(line') \notin {JStr(t) : t \in ToolNames}) =>
          /\ mpc' = "serving"
          /\ Len(out') = 1
          /\ IsErrorEnvelope(out'[1], IdOf(line'), -32601)
          /\ requests' = <<>>
          /\ UNCHANGED <<index_cache, details_cache, disk, exportFile>>]_vars


\* The line is one of the requests the claim lists: unparseable, parseable
\* but not an object, with params that is null or not an object, or naming
\* an unknown method or tool.
Malformed(l) ==
    \/ "garbage" \in DOMAIN l
    \/ /\ "json" \in DOMAIN l
       /\ \/ ~IsObj(l.json)
          \/ l.json.obj["method"] \notin {JStr("tools/list"), JStr("tools/call")}
          \/ /\ l.json.obj["method"] = JStr("tools/call")
             /\ l.json.obj["params"] # Absent
             /\ ~IsObj(l.json.obj["params"])
          \/ IsToolCall(l) /\ NameOf(l) \notin {JStr(t) : t \in ToolNames}

ErrorCodes == {-32700, -32601, -32603}

\* C12: in the serving loop every non-empty line is answered by exactly one
\* envelope and the loop goes on to the next line (for export_all after the
\* export has run); no line ends the process; the malformed and unknown
\* requests are answered by an error object with one of the fixed codes.
\* process_request runs outside any try block in the loop, and it raises
\* for a request that is not an object or whose params is not an object.
C12_EveryLineAnswered ==
    [][/\ mpc' # "crashed"
       /\ (TookLine /\ line' # BlankLine) =>
             \/ mpc' = "exporting" /\ out' = <<>>
             \/ mpc' = "serving" /\ Len(out') = 1
       /\ (TookLine /\ Malformed(line')) =>
             /\ mpc' = "serving"
             /\ Len(out') = 1
             /\ "error" \in DOMAIN out'[1]
             /\ out'[1].error.code \in ErrorCodes
       /\ (mpc = "exporting" /\ mpc' = "serving") => Len(out') = 1]_vars


\* The line is a call of get_component or get_component_props whose
\* arguments are an object.
LookupCall(l) ==
    /\ IsToolCall(l)
    /\ NameOf(l) \in {JStr("get_component"), JStr("get_component_props")}
    /\ IsObj(ArgumentsOf(l))
RequestedName(l) == Get(ArgumentsOf(l), "name", None)

\* Every live request of the list is for the overview page.
OnlyOverview(live) == \A k \in 1..Len(live) : live[k].url = OverviewUrl

\* The envelope of a lookup failure for the line.
NotFound(l) ==
    rpc_result(IdOf(l),
               [content |->
                   [error |-> "Component " \o RequestedName(l).jstr \o " not found"]])

CatalogObtained ==
    /\ index_cache' # None
    /\ \A k \in 1..Len(requests') : requests'[k].url = OverviewUrl => requests'[k].ok

CallArguments(l) == IF Truthy(ArgumentsOf(l)) THEN ArgumentsOf(l) ELSE NoArguments
Forced(l) == Truthy(Get(CallArguments(l), "force", Bool(FALSE)))

\* The line is a call of list_components, or a call of get_component or
\* get_component_props with a non-empty name: the calls that go through
\* ensure_index with their force.
ListCall(l) ==
    /\ IsToolCall(l) /\ NameOf(l) = JStr("list_components")
    /\ IsObj(CallArguments(l))
NamedCall(l) ==
    /\ LookupCall(l) /\ IsJStr(RequestedName(l)) /\ RequestedName(l) # JStr("")
UsesCatalog(l) == ListCall(l) \/ NamedCall(l)

\* A live request for the URL is in the list; the live request for it
\* succeeded.
Asked(live, u) == \E k \in 1..Len(live) : live[k].url = u
Fetched(live, u) == \E k \in 1..Len(live) : live[k].url = u /\ live[k].ok

\* The catalog and the detail the site served last: fetch_url wrote them to
\* the cache directory.
FreshCatalog == disk'[cache_file(OverviewUrl)]
FreshDetail(u) == [html |-> disk'[cache_file(u)], source_url |-> u]

\* The URL of the first catalog entry the requested name matches.
TargetUrl(idx, name) ==
    idx[CHOOSE k \in Matching(idx, name) : \A m \in Matching(idx, name) : k <= m].url

\* The content of the envelope a call of the tool gives for the detail.
DetailAnswer(l, detail) ==
    rpc_result(IdOf(l),
               [content |->
                   IF NameOf(l) = JStr("get_component") THEN detail
                   ELSE [component |-> RequestedName(l).jstr,
                         props_flat |-> props_flat(detail),
                         count |-> Len(props_flat(detail))]])

\* C14: the two in-memory caches obey force invalidation.  A call without
\* force on a populated catalog cache issues no request for the overview,
\* keeps the cache and (list_components) returns the cached catalog; with
\* force it issues a live request for the overview whatever the caches and
\* the cache directory hold, and when the request succeeds the cache holds
\* the catalog just served.  The same for the detail of the catalog entry a
\* name matches: without force a cached detail is returned with no request
\* for its URL; with force the URL is requested live and, when the request
\* succeeds, the cache entry is replaced by the detail just served, which
\* the call returns.  A later call without force therefore returns the
\* refreshed value.
C14_ForceInvalidation ==
    [][TookLine =>
        /\ (UsesCatalog(line') /\ ~Forced(line') /\ index_cache # None) =>
              /\ ~Asked(requests', OverviewUrl)
              /\ index_cache' = index_cache
              /\ ListCall(line') =>
                    out' = <<rpc_result(IdOf(line'),
                                        [content |-> [items |-> index_cache.catalog]])>>
        /\ (UsesCatalog(line') /\ Forced(line')) =>
              /\ requests' # <<>>
              /\ requests'[1].url = OverviewUrl
              /\ requests'[1].ok =>
                    /\ index_cache' = [catalog |-> FreshCatalog]
                    /\ ListCall(line') =>
                          out' = <<rpc_result(IdOf(line'),
                                              [content |-> [items |-> FreshCatalog]])>>
        /\ (/\ NamedCall(line') /\ CatalogObtained
            /\ Matching(index_cache'.catalog, RequestedName(line')) # {}) =>
              LET u == TargetUrl(index_cache'.catalog, RequestedName(line')) IN
              /\ (~Forced(line') /\ u \in DOMAIN details_cache) =>
                    /\ ~Asked(requests', u)
                    /\ details_cache' = details_cache
                    /\ out' = <<DetailAnswer(line', details_cache[u])>>
              /\ Forced(line') =>
                    /\ Asked(requests', u)
                    /\ Fetched(requests', u) =>
                          /\ details_cache' = Store(details_cache, u, FreshDetail(u))
                          /\ out' = <<DetailAnswer(line', FreshDetail(u))>>]_vars

\* C14 witness: get_component was called for Button with force, the
\* overview and the page were both requested live and served, and the
\* detail returned and cached is the second page, which no earlier run
\* left in the cache directory.
C14_Witness ==
    /\ mpc = "serving"
    /\ NamedCall(line) /\ NameOf(line) = JStr("get_component") /\ Forced(line)
    /\ Len(requests) = 2 /\ requests[1].ok /\ requests[2].ok
    /\ index_cache = [catalog |-> <<Summary("Button")>>]
    /\ details_cache[Summary("Button").url].html = "page-b"
    /\ out = <<DetailAnswer(line, details_cache[Summary("Button").url])>>

\* The call was answered by the internal-error envelope after one of its
\* live requests failed.
FailedOnFetch ==
    /\ Len(out') = 1
    /\ "error" \in DOMAIN out'[1]
    /\ out'[1].error.code = -32603
    /\ \E k \in 1..Len(requests') : ~requests'[k].ok

\* C18 as stated: a dispatcher call that fails because a fetch raises
\* leaves the two in-memory caches exactly as they were before the call.
C18_FailedCallLeavesCaches ==
    [][((TookLine \/ mpc = "exporting") /\ FailedOnFetch) =>
          UNCHANGED <<index_cache, details_cache>>]_vars

\* A live request for the URL failed.
Refused(live, u) == \E k \in 1..Len(live) : live[k].url = u /\ ~live[k].ok

\* C18 amended: a call that fails because the overview request fails
\* leaves both caches as they were (a failed forced refresh keeps the
\* cached catalog); a call that fails because a detail request fails,
\* forced or not, leaves the detail cache as it was, while the catalog cache
\* is as before or, when the same call loaded the catalog first, holds the
\* catalog that is now in the cache directory; export_all never changes the
\* two caches.
C18_FailedFetchKeepsEntry ==
    [][/\ (TookLine /\ FailedOnFetch) =>
             /\ details_cache' = details_cache
             /\ Refused(requests', OverviewUrl) => index_cache' = index_cache
             /\ index_cache' # index_cache =>
                   /\ cache_file(OverviewUrl) \in DOMAIN disk'
                   /\ index_cache' = [catalog |-> FreshCatalog]
       /\ mpc = "exporting" => UNCHANGED <<index_cache, details_cache>>]_vars

\* C18 witness: a forced get_component for Button fetched the overview,
\* the request for the page failed, the answer is the internal error, and
\* the detail cache still holds the second page.
C18_Witness ==
    /\ mpc = "serving"
    /\ NamedCall(line) /\ NameOf(line) = JStr("get_component") /\ Forced(line)
    /\ Len(requests) = 2 /\ requests[1].ok /\ ~requests[2].ok
    /\ Len(out) = 1 /\ "error" \in DOMAIN out[1] /\ out[1].error.code = -32603
    /\ Summary("Button").url \in DOMAIN details_cache
    /\ details_cache[Summary("Button").url].html = "page-b"


\* The event keywords as the documentation lists them: the English words
\* and their localized equivalents, and "on".
DocumentedEventWords ==
    {S("event"), S("callback"), S("listener"), ShiJian, HuiDiao, S("on")}

\* C16: a table whose joined header labels contain one of the event
\* keywords "event", "callback", "listener", their localized equivalents, or
\* "on", is classified as 'events' whatever other keywords the header
\* contains.
C16_EventWordsGiveEvents ==
    (/\ cpc = "classified"
     /\ \E k \in DocumentedEventWords : Contains(Join(cheader), k)) =>
        kind = "events"

\* What the claim lets the normalized row hold for a cell under the key: the
\* first line, trimmed, of a non-empty name; the text or a boolean for
\* 'required'; the text itself otherwise.
CellUnder(key, cell) ==
    IF key = KeyName /\ cell # <<>>
    THEN {Str(strip(FirstField(cell, {"\n"})))}
    ELSE IF key = KeyRequired THEN {Str(cell), Bool(TRUE), Bool(FALSE)}
    ELSE {Str(cell)}

\* C17: normalize_row maps every header label of the synonym table to its
\* canonical field and copies every other label through unchanged, so that
\* each cell of the row that has a column appears in the normalized row
\* under the key derived from its own column label, the name reduced to its
\* first line and trimmed.
C17_EachCellUnderItsKey ==
    rpc = "normalized" =>
        \A i \in 1..Len(header) :
            i <= Len(cells) =>
                /\ HasKey(normalized, Synonym(header[i]))
                /\ Lookup(normalized, Synonym(header[i]))
                      \in CellUnder(Synonym(header[i]), cells[i])

\* The same for plain tables only, which have no label twice and no column
\* labelled raw, cells or required.
C17_PlainTables == PlainTable => C17_EachCellUnderItsKey

(***************************************************************************)
(* fetch_url called on its own                                             *)
(***************************************************************************)
\* The URLs fetch_url is called with: the overview, a component page, and
\* the two URLs that share one cache file.
FetchUrls == {OverviewUrl, Summary("Button").url} \cup OtherUrls

\* The cache directory starts empty; nothing else runs.
FetchInit ==
    /\ ExportOff /\ FetchOff
InitFetch ==
    /\ FetchInit /\ NameOff /\ OverviewOff /\ ClassifyOff /\ RowOff /\ ServerOff

\* One call fetch_url(url, force=f): 'ret' holds the text returned or the
\* message of the exception raised, 'requests' the live requests of the
\* call, 'slept' whether time.sleep ran.
CallFetchUrl(url, f) ==
    \E o \in fetch_url(disk, url, f) :
        /\ furl' = url
        /\ force' = f
        /\ disk' = o.disk
        /\ requests' = o.live
        /\ slept' = o.slept
        /\ ret' = IF o.raised THEN [error |-> o.error] ELSE [text |-> o.text]
        /\ UNCHANGED <<exportFile, pc, validate, filepath, index, pos,
                       all_details, failures>>
        /\ UNCHANGED <<nameVars, overviewVars, classifyVars, rowVars, serverVars>>

NextFetch == \E url \in FetchUrls, f \in BOOLEAN : CallFetchUrl(url, f)
SpecFetch == InitFetch /\ [][NextFetch]_vars

\* The cache directory differs from d at most in the file.
SameButFor(d, e, file) ==
    /\ DOMAIN e \ {file} = DOMAIN d \ {file}
    /\ \A k \in DOMAIN d \ {file} : e[k] = d[k]

\* C15: fetch_url(url, force) returns the cached markup without a live
\* request (and without writing or sleeping) when the cache file of the
\* URL's sanitized key exists and force is false; otherwise it issues
\* exactly one live request, for that URL; when the request fails it raises
\* (FetchError for a status other than 200), the cache directory is as it
\* was and it did not sleep; when the request succeeds it writes the
\* response to that cache file and to no other, sleeps, and returns the
\* response.
C15_FetchUrlContract ==
    [][LET file == cache_file(furl') IN
       IF file \in DOMAIN disk /\ ~force'
       THEN /\ ret' = [text |-> disk[file]]
            /\ requests' = <<>>
            /\ disk' = disk
            /\ ~slept'
       ELSE /\ Len(requests') = 1
            /\ requests'[1].url = furl'
            /\ ~requests'[1].ok =>
                  /\ "error" \in DOMAIN ret'
                  /\ ret'.error \in FetchErrors(furl')
                  /\ disk' = disk
                  /\ ~slept'
            /\ requests'[1].ok =>
                  /\ "text" \in DOMAIN ret'
                  /\ ret'.text \in Remote(furl')
                  /\ file \in DOMAIN disk'
                  /\ disk'[file] = ret'.text
                  /\ SameButFor(disk, disk', file)
                  /\ slept']_vars

\* C15 witness: a call without force for one of the two URLs that share a
\* cache file returned the cached markup with no live request, while the
\* cache directory also holds the overview and the component page that
\* earlier calls fetched live.
C15_Witness ==
    /\ furl = "http://a/b/c" /\ ~force
    /\ requests = <<>> /\ ~slept
    /\ cache_file(furl) \in DOMAIN disk
    /\ ret = [text |-> disk[cache_file(furl)]]
    /\ cache_file(OverviewUrl) \in DOMAIN disk
    /\ cache_file(Summary("Button").url) \in DOMAIN disk

=============================================================================
